---- MODULE Spec2Model ----
(***************************************************************************)
(* Timesheet -> salary slip pipeline (agentic-payroll).                    *)
(*                                                                         *)
(* The specifications of this module:                                      *)
(*   Spec      the orchestrator TimesheetWorkflow (workflow.py) driving    *)
(*             the parser, calculator and generator agents;                *)
(*   TaxSpec   WageCalculatorAgent.calculate_progressive_tax applied to    *)
(*             gross amounts drawn from a bounded set;                     *)
(*   CalcSpec  WageCalculatorAgent.process applied to timesheet data drawn *)
(*             from a bounded set;                                         *)
(*   ExactSpec CalcSpec restricted to the data on which no rounding meets  *)
(*             a tie;                                                      *)
(*   PaySpec   WageCalculatorAgent.process applied to timesheet data whose *)
(*             gross amounts lie one cent apart, then to data of another   *)
(*             gross amount;                                               *)
(*   ParseSpec TimesheetParserAgent.process applied to documents drawn     *)
(*             from a bounded set;                                         *)
(*   SlipSpec  SalarySlipGeneratorAgent.generate_filename applied to two   *)
(*             identities;                                                 *)
(*   BatchSpec process_all_timesheets (main.py) on a directory of          *)
(*             workbooks.                                                  *)
(*                                                                         *)
(* Units.  Python floats holding money are modelled as integers:           *)
(*   - a value the code has passed through round(x, 2) is a number of      *)
(*     cents;                                                              *)
(*   - hours are hundredths of an hour, rates are cents per hour;          *)
(*   - an unrounded intermediate is an integer numerator over a fixed      *)
(*     denominator (TaxScale, GrossScale, DedScale units per cent).        *)
(* round(x, 2) on a binary float returns the nearest cent; when the exact  *)
(* decimal value lies halfway between two cents the result depends on the  *)
(* representation error of the float (round(0.05*0.10, 2) = 0.01 but       *)
(* round(0.35*0.10, 2) = 0.03), so Round2 takes the direction of a tie as  *)
(* an input chosen by the caller.                                          *)
(*                                                                         *)
(* Optional[T] is a sequence of length at most one: None is <<>>.          *)
(* Python strings that the code builds or edits (names, dates, paths,      *)
(* messages) are sequences of string pieces; "" is <<>>.                   *)
(***************************************************************************)
EXTENDS Integers, Sequences, FiniteSets, TLC

VARIABLES
    pc,        \* position of the workflow graph: idle, a node name, or END
    state,     \* the WorkflowState dict of the current / last run
    file,      \* the document named by timesheet_file_path
    calls,     \* agent invocations of the current run, in order
    runs,      \* number of process_timesheet calls made so far
    tax_in,    \* TaxSpec: argument of calculate_progressive_tax (cents)
    tax_out,   \* TaxSpec: its result (cents), None before the call
    tax_prev,  \* TaxSpec: argument and result of the call before, or None
    calc_in,   \* CalcSpec: argument of WageCalculatorAgent.process
    calc_out,  \* CalcSpec: its result
    calc_prev, \* CalcSpec: the result of the call before on the same argument
    parse_in,  \* ParseSpec: the document given to TimesheetParserAgent.process
    parse_out, \* ParseSpec: its result
    slip_in,   \* SlipSpec: the arguments of two calls of generate_filename
    slip_out,  \* SlipSpec: the two paths returned
    timesheet_files,  \* BatchSpec: the files process_all_timesheets found
    results,          \* BatchSpec: its list results
    successful,       \* BatchSpec: its counter successful
    failed            \* BatchSpec: its counter failed

vars == <<pc, state, file, calls, runs, tax_in, tax_out, tax_prev, calc_in, calc_out,
          calc_prev, parse_in, parse_out, slip_in, slip_out,
          timesheet_files, results, successful, failed>>
wfvars == <<pc, state, file, calls, runs>>
taxvars == <<tax_in, tax_out, tax_prev>>
calcvars == <<calc_in, calc_out, calc_prev>>
parsevars == <<parse_in, parse_out>>
slipvars == <<slip_in, slip_out>>
batchvars == <<timesheet_files, results, successful, failed>>

None == <<>>
Some(x) == <<x>>

Min(a, b) == IF a <= b THEN a ELSE b

\* The variables of SlipSpec and of BatchSpec before any of their steps
SlipIdle == slip_in = None /\ slip_out = None
BatchIdle == timesheet_files = <<>> /\ results = <<>> /\ successful = 0 /\ failed = 0

(***************************************************************************)
(* Bounds of the model.                                                    *)
(***************************************************************************)
MaxRuns == 2          \* process_timesheet calls per behaviour
TaxWindow == 50       \* cents explored on each side of a bracket limit
MaxGrossK == 13       \* TaxSpec also explores 0, 500, ..., MaxGrossK*500 dollars
MaxExtraDays == 1     \* CalcSpec: 8-hour days worked beyond the 160-hour month
MaxDays == 2          \* ParseSpec: daily rows of a document
PayWindow == 20       \* PaySpec: gross amounts explored cent by cent above 1001.50

(***************************************************************************)
(* round(x, 2) of the value num/den cents (den > 0): the nearest cent;     *)
(* up decides an exact tie.                                                *)
(***************************************************************************)
Round2(num, den, up) ==
    LET q == num \div den
        r == num % den
    IN  IF 2 * r < den THEN q
        ELSE IF 2 * r > den THEN q + 1
        ELSE IF up THEN q + 1 ELSE q

(***************************************************************************)
(* agents/agent2_calculator.py: WageCalculatorAgent                        *)
(***************************************************************************)
Inf == 2000000000     \* float('inf'): above every amount of the model

TaxScale == 100       \* cents * percent: units per cent of the unrounded tax

\* self.tax_brackets: limits in cents, rates in percent
tax_brackets ==
    << [limit |-> 100000, rate |-> 10],
       [limit |-> 300000, rate |-> 12],
       [limit |-> 500000, rate |-> 22],
       [limit |-> Inf,    rate |-> 24] >>

\* Mutant of TaxLoop: previous_limit is never advanced
RECURSIVE TaxLoop_NoAdvance(_, _, _, _)
TaxLoop_NoAdvance(i, tax, previous_limit, gross_salary) ==
    IF i > Len(tax_brackets) THEN tax
    ELSE LET bracket == tax_brackets[i]
         IN  IF gross_salary > previous_limit
             THEN LET taxable_in_bracket ==
                          Min(gross_salary - previous_limit,
                              bracket.limit - previous_limit)
                      tax2 == tax + taxable_in_bracket * bracket.rate
                  IN  IF gross_salary <= bracket.limit
                      THEN tax2
                      ELSE TaxLoop_NoAdvance(i + 1, tax2, previous_limit, gross_salary)
             ELSE TaxLoop_NoAdvance(i + 1, tax, previous_limit, gross_salary)

\* Mutant of TaxLoop: each bracket entered is taxed in full
RECURSIVE TaxLoop_WholeBracket(_, _, _, _)
TaxLoop_WholeBracket(i, tax, previous_limit, gross_salary) ==
    IF i > Len(tax_brackets) THEN tax
    ELSE LET bracket == tax_brackets[i]
         IN  IF gross_salary > previous_limit
             THEN LET taxable_in_bracket ==
                          IF bracket.limit = Inf THEN gross_salary - previous_limit
                          ELSE bracket.limit - previous_limit
                      tax2 == tax + taxable_in_bracket * bracket.rate
                  IN  IF gross_salary <= bracket.limit
                      THEN tax2
                      ELSE TaxLoop_WholeBracket(i + 1, tax2, bracket.limit, gross_salary)
             ELSE TaxLoop_WholeBracket(i + 1, tax, previous_limit, gross_salary)

\* The for loop of calculate_progressive_tax from bracket i on, with the
\* values of tax (in 1/TaxScale cents) and previous_limit on entry.
RECURSIVE TaxLoop(_, _, _, _)
TaxLoop(i, tax, previous_limit, gross_salary) ==
    IF i > Len(tax_brackets) THEN tax
    ELSE LET bracket == tax_brackets[i]
         IN  IF gross_salary > previous_limit
             THEN LET taxable_in_bracket ==
                          Min(gross_salary - previous_limit,
                              bracket.limit - previous_limit)
                      tax2 == tax + taxable_in_bracket * bracket.rate
                  IN  IF gross_salary <= bracket.limit
                      THEN tax2                                   \* break
                      ELSE TaxLoop(i + 1, tax2, bracket.limit, gross_salary)
             ELSE TaxLoop(i + 1, tax, previous_limit, gross_salary)

\* Mutant of calculate_progressive_tax: the whole amount is taxed at the
\* rate of the bracket it reaches
calculate_progressive_tax_Flat(gross_salary, up) ==
    LET reached == CHOOSE i \in 1..Len(tax_brackets) :
                       /\ gross_salary <= tax_brackets[i].limit
                       /\ \A j \in 1..(i - 1) : gross_salary > tax_brackets[j].limit
    IN  Round2(IF gross_salary > 0 THEN gross_salary * tax_brackets[reached].rate ELSE 0,
               TaxScale, up)

\* calculate_progressive_tax(gross_salary): gross in cents, result in cents
calculate_progressive_tax(gross_salary, up) ==
    Round2(TaxLoop(1, 0, 0, gross_salary), TaxScale, up)

GrossScale == 200     \* units per cent of the unrounded gross amounts
                      \* (hours/100 * cents/hour = 1/100 cent, halved by * 0.5)
allowances_fixed == 50000    \* allowances = 500.0
bonus_fixed == 20000         \* bonuses = 200.0
full_month_hours == 16000    \* regular_hours >= 160

\* The places of WageCalculatorAgent.process where round(x, 2) may meet a tie
RoundSites ==
    {"base_pay", "overtime_pay", "allowances", "total_gross",
     "income_tax", "social_security", "provident_fund", "total_deductions"}
TieChoices == [RoundSites -> BOOLEAN]

\* Mutant of bonuses_for: the threshold is strict
bonuses_for_Strict(regular_hours) ==
    IF regular_hours > full_month_hours THEN bonus_fixed * GrossScale ELSE 0

\* bonuses of calculate_gross_salary, in 1/GrossScale cents
bonuses_for(regular_hours) ==
    IF regular_hours >= full_month_hours THEN bonus_fixed * GrossScale ELSE 0

\* Mutant of calculate_gross_salary: holiday work is also paid as regular
\* hours, at the full rate
calculate_gross_salary_HolidayInBase(timesheet_data, ups) ==
    LET hours == timesheet_data.hours
        base_pay == 2 * (hours.regular_hours + hours.holiday_work_hours)
                      * timesheet_data.hourly_rate
        overtime_pay == 2 * hours.overtime_hours * timesheet_data.overtime_rate
        holiday_bonus == hours.holiday_work_hours * timesheet_data.hourly_rate
        allowances == allowances_fixed * GrossScale
        bonuses == bonuses_for(hours.regular_hours)
        total_gross == base_pay + overtime_pay + holiday_bonus + allowances + bonuses
    IN  [ base_pay     |-> Round2(base_pay, GrossScale, ups["base_pay"]),
          overtime_pay |-> Round2(overtime_pay, GrossScale, ups["overtime_pay"]),
          allowances   |-> Round2(allowances + holiday_bonus, GrossScale, ups["allowances"]),
          bonuses      |-> Round2(bonuses, GrossScale, FALSE),
          total_gross  |-> Round2(total_gross, GrossScale, ups["total_gross"]) ]

\* calculate_gross_salary(timesheet_data) -> GrossSalary (fields in cents)
calculate_gross_salary(timesheet_data, ups) ==
    LET hours == timesheet_data.hours
        base_pay == 2 * hours.regular_hours * timesheet_data.hourly_rate
        overtime_pay == 2 * hours.overtime_hours * timesheet_data.overtime_rate
        holiday_bonus == hours.holiday_work_hours * timesheet_data.hourly_rate
        allowances == allowances_fixed * GrossScale
        bonuses == bonuses_for(hours.regular_hours)
        total_gross == base_pay + overtime_pay + holiday_bonus + allowances + bonuses
    IN  [ base_pay     |-> Round2(base_pay, GrossScale, ups["base_pay"]),
          overtime_pay |-> Round2(overtime_pay, GrossScale, ups["overtime_pay"]),
          allowances   |-> Round2(allowances + holiday_bonus, GrossScale, ups["allowances"]),
          bonuses      |-> Round2(bonuses, GrossScale, FALSE),
          total_gross  |-> Round2(total_gross, GrossScale, ups["total_gross"]) ]

DedScale == 2000             \* units per cent of the unrounded deductions
social_security_rate == 124  \* 0.062  = 124/2000
medicare_rate == 29          \* 0.0145 =  29/2000
provident_fund_rate == 100   \* 0.05   = 100/2000
insurance_flat == 10000      \* 100.0

\* calculate_deductions(gross_salary) -> Deductions (argument and fields in cents)
calculate_deductions(gross_salary, ups) ==
    LET income_tax == calculate_progressive_tax(gross_salary, ups["income_tax"]) * DedScale
        social_security == gross_salary * social_security_rate
        medicare == gross_salary * medicare_rate
        fica_total == social_security + medicare
        insurance == insurance_flat * DedScale
        provident_fund == gross_salary * provident_fund_rate
        other_deductions == 0
        total_deductions ==
            income_tax + fica_total + insurance + provident_fund + other_deductions
    IN  [ income_tax       |-> Round2(income_tax, DedScale, FALSE),
          social_security  |-> Round2(fica_total, DedScale, ups["social_security"]),
          insurance        |-> Round2(insurance, DedScale, FALSE),
          provident_fund   |-> Round2(provident_fund, DedScale, ups["provident_fund"]),
          other_deductions |-> Round2(other_deductions, DedScale, FALSE),
          total_deductions |-> Round2(total_deductions, DedScale, ups["total_deductions"]) ]

NetScale == 1000      \* units per cent of the unrounded net salary
FloatErrors == {-1, 0, 1}    \* error of a float subtraction, in 1/NetScale cents

\* Mutant of net_salary_of: the difference is truncated to cents, not rounded
net_salary_of_Truncated(gross_salary, deductions, err) ==
    ((gross_salary.total_gross - deductions.total_deductions) * NetScale + err)
        \div NetScale

\* net_salary = gross_salary.total_gross - deductions.total_deductions, and
\* the round(net_salary, 2) stored in SalaryCalculation.  Both operands are
\* floats holding whole cents; err is the representation error of their
\* difference (8890.0 - 3137.81 is 5752.1900000000005).
net_salary_of(gross_salary, deductions, err) ==
    LET net_salary ==
            (gross_salary.total_gross - deductions.total_deductions) * NetScale + err
    IN  Round2(net_salary, NetScale, FALSE)

\* WageCalculatorAgent.process(timesheet_data).  timesheet_data is the
\* Optional value the caller passes; fault is None or the message of an
\* exception raised inside the try block; now is datetime.now() as a date.
calculator_process(timesheet_data, fault, now, ups, err) ==
    IF timesheet_data = None
    THEN [success |-> FALSE, data |-> None,
          error |-> Some(<<"'NoneType' object has no attribute 'hours'">>)]
    ELSE IF fault # None
    THEN [success |-> FALSE, data |-> None, error |-> fault]
    ELSE LET td == timesheet_data[1]
             gross_salary == calculate_gross_salary(td, ups)
             deductions == calculate_deductions(gross_salary.total_gross, ups)
             salary_calculation ==
                 [ employee_id      |-> td.employee.employee_id,
                   gross_salary     |-> gross_salary,
                   deductions       |-> deductions,
                   net_salary       |-> net_salary_of(gross_salary, deductions, err),
                   calculation_date |-> now ]
         IN  [success |-> TRUE, data |-> Some(salary_calculation), error |-> None]

\* Exceptions the try block of process can catch, and the dates a run can see
CalcFaults == {Some(<<"calculation error">>)}
Dates == {"2025-11-01", "2025-11-02"}

(***************************************************************************)
(* models.py: TimesheetData values                                         *)
(***************************************************************************)
Employees ==
    { [employee_id |-> <<"EMP001">>, name |-> <<"John", " ", "Smith">>,
       department |-> <<"Engineering">>, designation |-> <<"Senior Software Engineer">>,
       email |-> <<"john.smith@company.com">>, bank_account |-> <<"1234567890">>] }
Periods ==
    { [start_date |-> <<"2025", "-", "10", "-", "01">>,
       end_date   |-> <<"2025", "-", "10", "-", "31">>] }

TimesheetSet(RH, OH, HH, HR, OR) ==
    { [ employee |-> e, period |-> p,
        hours |-> [regular_hours |-> rh, overtime_hours |-> oh,
                   leave_days |-> 0, holiday_work_hours |-> hh],
        hourly_rate |-> hr, overtime_rate |-> orate ] :
      e \in Employees, p \in Periods,
      rh \in RH, oh \in OH, hh \in HH, hr \in HR, orate \in OR }

(***************************************************************************)
(* agents/agent1_parser.py: TimesheetParserAgent                           *)
(*                                                                         *)
(* pd.read_excel(file_path, sheet_name='Timesheet') takes the first row of *)
(* the sheet as column labels and returns the rows below it: df is the     *)
(* sequence of those rows and df.iloc[idx, col] is cell col of row idx,    *)
(* both counted from 0.  A row is the sequence of its cells; the cells a   *)
(* row does not hold are blank.  Read again with skiprows = k, the sheet   *)
(* yields the rows of df from idx = k on.                                  *)
(***************************************************************************)
\* A cell as pandas returns it: blank (NaN), a text (pieces), or a number
\* (hundredths)
NaN == [kind |-> "nan", text |-> <<>>, num |-> 0]
Str(pieces) == [kind |-> "str", text |-> pieces, num |-> 0]
Num(n) == [kind |-> "num", text |-> <<>>, num |-> n]

\* pd.notna(cell)
notna(cell) == cell.kind # "nan"

\* Cell col of a row, both counted from 0
cell_of(row, col) == IF col + 1 <= Len(row) THEN row[col + 1] ELSE NaN

\* df.iloc[idx, col] for idx < len(df)
iloc(df, idx, col) == cell_of(df[idx + 1], col)

\* str(n / 100) of a number that is not whole: digits after the point
\* without trailing zero
decimals(c) ==
    IF c % 10 = 0 THEN ToString(c \div 10)
    ELSE IF c < 10 THEN "0" \o ToString(c) ELSE ToString(c)

\* str(value) of a cell: "nan", the text, or the decimal notation of the
\* number (42 for a whole number, 42.5 otherwise)
str(cell) ==
    IF cell.kind = "nan" THEN <<"nan">>
    ELSE IF cell.kind = "str" THEN cell.text
    ELSE LET a == IF cell.num < 0 THEN -cell.num ELSE cell.num
             digits == IF a % 100 = 0 THEN ToString(a \div 100)
                       ELSE ToString(a \div 100) \o "." \o decimals(a % 100)
         IN  <<IF cell.num < 0 THEN "-" \o digits ELSE digits>>

\* str.lower() on the pieces of the model
lower(piece) ==
    IF piece = ".XLSX" THEN ".xlsx"
    ELSE IF piece \in {"Date", "DATE"} THEN "date"
    ELSE piece

lower_str(pieces) == [i \in 1..Len(pieces) |-> lower(pieces[i])]

\* float(cell) of a number or a text; the texts of the model are not
\* numerals.  (float of a blank cell is nan: the documents of the model
\* hold no blank cell where a rate is read.)
float(cell) ==
    IF cell.kind = "num"
    THEN [error |-> None, value |-> cell.num]
    ELSE [error |-> Some(<<"could not convert string to float: ">> \o cell.text),
          value |-> 0]

\* The element of a singleton.  Only({e(v) : v \in {x}}) is e(x) with x
\* evaluated once, whatever the number of times e uses it.
Only(S) == CHOOSE v \in S : TRUE

\* Sum of the numbers of cells from position i on, blank cells skipped
RECURSIVE sum_from(_, _)
sum_from(cells, i) ==
    IF i > Len(cells) THEN 0
    ELSE (IF cells[i].kind = "num" THEN cells[i].num ELSE 0) + sum_from(cells, i + 1)

\* Series.sum() of a column of numbers
sum(cells) == Only({sum_from(c, 1) : c \in {cells}})

\* Mutant of first: the scan keeps the last row that matches
first_Last(hits) ==
    Only({ IF h = {} THEN None ELSE Some(CHOOSE i \in h : \A j \in h : j <= i) :
           h \in {hits} })

\* The row a forward scan with break stops at
first(hits) ==
    Only({ IF h = {} THEN None ELSE Some(CHOOSE i \in h : \A j \in h : i <= j) :
           h \in {hits} })

\* employee_data.get(key, '') after the loop over rows 0-5
employee_data_get(df, key) ==
    LET set == {idx \in 0..5 : /\ notna(iloc(df, idx, 0))
                               /\ notna(iloc(df, idx, 1))
                               /\ iloc(df, idx, 0) = Str(<<key>>)}
    IN  IF set = {} THEN <<>>
        ELSE str(iloc(df, CHOOSE i \in set : \A j \in set : j <= i, 1))

daily_nrows == 32      \* nrows=32
summary_nrows == 6     \* nrows=6

failure(message) == [success |-> FALSE, data |-> None, error |-> Some(message)]
IndexError == <<"single positional indexer is out-of-bounds">>
TypeError == <<"unsupported operand type(s) for +: 'int' and 'str'">>

\* Whether Series.sum() raises: the column holds a text among its numbers
sum_raises(cells) == \E i \in 1..Len(cells) : cells[i].kind = "str"

(***************************************************************************)
(* Documents: sheets in the layout generate_dummy_timesheets.py writes     *)
(* (identity block, pay period, daily records, summary), and the ways a    *)
(* hand-edited sheet departs from it                                       *)
(***************************************************************************)
Blank == <<>>
Pair(label, value) == <<Str(<<label>>), value>>

StandardIdentity ==
    << Pair("Employee ID", Str(<<"EMP001">>)),
       Pair("Name", Str(<<"John", " ", "Smith">>)),
       Pair("Department", Str(<<"Engineering">>)),
       Pair("Designation", Str(<<"Senior Software Engineer">>)),
       Pair("Email", Str(<<"john.smith@company.com">>)),
       Pair("Bank Account", Str(<<"1234567890">>)) >>

\* The identity blocks of the model: the standard one; one without an
\* 'Employee ID' row; one whose name cell is blank; one whose last two rows
\* hold numbers
IdentityBlocks ==
    { StandardIdentity,
      [StandardIdentity EXCEPT ![1] = Pair("Badge", Str(<<"EMP001">>))],
      [StandardIdentity EXCEPT ![2] = Pair("Name", NaN)],
      [StandardIdentity EXCEPT ![5] = Pair("Grade", Num(700)),
                               ![6] = Pair("Cost Center", Num(4200))] }

PeriodBlock ==
    << Pair("Pay Period Start", Str(<<"2025", "-", "10", "-", "01">>)),
       Pair("Pay Period End", Str(<<"2025", "-", "10", "-", "31">>)) >>

\* The header row of the daily records, with the label of its first cell;
\* under the label 'day' the first two columns are exchanged
DailyHeader(first_label) ==
    << Str(<<first_label>>), Str(<<IF first_label = "day" THEN "date" ELSE "day">>),
       Str(<<"status">>), Str(<<"hours_worked">>), Str(<<"overtime_hours">>),
       Str(<<"notes">>) >>

DateLabels == {"date", "Date", "day_date", "day"}

\* One row of the daily records
DayRow(date, status, hours_worked, overtime_hours) ==
    << date, Str(<<"Monday">>), Str(<<status>>), Num(hours_worked),
       Num(overtime_hours), NaN >>

Dated == Str(<<"2025-10-01">>)

\* The daily rows of the model: the rows the generator writes, a weekend
\* row with hours entered, a row with negative hours, a spacer row
DayRows ==
    { DayRow(Dated, "Present", 800, 0),
      DayRow(Dated, "Present", 800, 200),
      DayRow(Dated, "Half Day", 400, 0),
      DayRow(Dated, "Leave", 0, 0),
      DayRow(Dated, "Holiday Work", 800, 0),
      DayRow(Dated, "Weekend", 0, 0),
      DayRow(Dated, "Weekend", 800, 200),
      DayRow(Dated, "Present", -800, 0),
      DayRow(NaN, "Present", 800, 200) }

\* Sequences of at most n daily rows
RECURSIVE DaySeqs(_)
DaySeqs(n) ==
    IF n = 0 THEN {<<>>}
    ELSE DaySeqs(n - 1)
         \cup {Append(s, r) : s \in {t \in DaySeqs(n - 1) : Len(t) = n - 1}, r \in DayRows}

\* count copies of row
RECURSIVE Repeat(_, _)
Repeat(row, count) == IF count = 0 THEN <<>> ELSE <<row>> \o Repeat(row, count - 1)

\* 20 Present days of 8 h, 2 half days of 4 h, 3 leaves, 1 holiday worked
ExampleDays ==
    Repeat(DayRow(Dated, "Present", 800, 0), 20)
    \o Repeat(DayRow(Dated, "Half Day", 400, 0), 2)
    \o Repeat(DayRow(Dated, "Leave", 0, 0), 3)
    \o Repeat(DayRow(Dated, "Holiday Work", 800, 0), 1)

\* The summary block: its six rows, with the label of the first and the
\* two rate cells
SummaryBlock(first_label, hourly_rate, overtime_rate) ==
    << <<Str(first_label), Num(0)>>,
       Pair("Total Overtime Hours", Num(0)),
       Pair("Total Leave Days", Num(0)),
       Pair("Holiday Work Hours", Num(0)),
       Pair("Hourly Rate ($)", hourly_rate),
       Pair("Overtime Rate ($)", overtime_rate) >>

SummaryLabels ==
    { <<"Total Regular Hours">>, <<"Total Regular Hours", " (hrs)">>,
      <<"Regular Hours Total">> }

\* The summary blocks of the model: each label with the standard rates;
\* with the standard label, a negative rate, a rate that is not a number,
\* and a block cut short
SummaryBlocks ==
    { SummaryBlock(l, Num(4500), Num(6750)) : l \in SummaryLabels }
    \cup { SummaryBlock(<<"Total Regular Hours">>, Num(-4500), Num(6750)),
           SummaryBlock(<<"Total Regular Hours">>, Num(4500), Str(<<"N/A">>)),
           SubSeq(SummaryBlock(<<"Total Regular Hours">>, Num(4500), Num(6750)), 1, 5) }

\* The rows below the first row of the sheet, in the generator's layout
Layout(identity, first_label, days, summary) ==
    identity \o <<Blank, <<Str(<<"Field">>), Str(<<"Value">>)>>>> \o PeriodBlock
    \o <<Blank, Blank>> \o <<DailyHeader(first_label)>> \o days
    \o <<Blank, Blank, <<Str(<<"Metric">>), Str(<<"Value">>)>>>> \o summary

StandardSummary == SummaryBlock(<<"Total Regular Hours">>, Num(4500), Num(6750))

\* Rows below the summary that match a scan again: a signature line 'Date',
\* a second summary block with rates of its own, a second daily table
LaterMatches ==
    { <<Blank, <<Str(<<"Date">>), Str(<<"2025-11-01">>)>>>>,
      <<Blank, <<Str(<<"Metric">>), Str(<<"Value">>)>>>>
          \o SummaryBlock(<<"Total Regular Hours">>, Num(9900), Num(9900)),
      <<Blank, DailyHeader("date"), DayRow(Dated, "Present", 800, 200)>> }

\* Daily records that reach or pass the end of the bounded read: 29 to 31
\* work days followed by up to two more records
LongDays ==
    { Repeat(DayRow(Dated, "Present", 800, 0), n) \o more :
      n \in 29..31,
      more \in { <<>>, <<DayRow(Dated, "Present", 800, 200)>>,
                 <<DayRow(Dated, "Present", 800, 200),
                   DayRow(Dated, "Holiday Work", 800, 0)>> } }

\* The documents of ParseSpec
Documents ==
    { Layout(identity, first_label, days, summary) :
          identity \in IdentityBlocks, first_label \in DateLabels,
          days \in DaySeqs(MaxDays), summary \in SummaryBlocks }
    \cup { Layout(StandardIdentity, "date", ExampleDays, StandardSummary),
           SubSeq(StandardIdentity, 1, 4) }
    \cup { Layout(StandardIdentity, "date", days, StandardSummary) \o later :
           days \in DaySeqs(MaxDays) \cup LongDays, later \in LaterMatches }
    \cup { Layout(StandardIdentity, "date", days, StandardSummary) : days \in LongDays }

\* The documents of the workflow runs
WorkflowDays ==
    { <<DayRow(Dated, "Present", 800, 200), DayRow(Dated, "Holiday Work", 800, 0)>>,
      <<DayRow(Dated, "Present", -800, 0)>> }

WorkflowSummaries ==
    { StandardSummary,
      SummaryBlock(<<"Total Regular Hours">>, Num(-4500), Num(6750)),
      SummaryBlock(<<"Total Regular Hours">>, Num(4500), Str(<<"N/A">>)),
      SummaryBlock(<<"Regular Hours Total">>, Num(4500), Num(6750)) }

WorkflowDocuments ==
    { Layout(StandardIdentity, first_label, days, summary) :
          first_label \in DateLabels, days \in WorkflowDays,
          summary \in WorkflowSummaries }

\* What pd.read_excel yields: an exception or the rows of the sheet
Workbook(df) == [error |-> None, sheet |-> df]
Unreadable == [error |-> Some(<<"Worksheet named 'Timesheet' not found">>), sheet |-> <<>>]
Workbooks == {Unreadable} \cup {Workbook(df) : df \in WorkflowDocuments}

Extensions == {".xlsx", ".XLSX", ".xls", ".pdf", ".csv"}

\* A document: its path as <<root, extension>> (os.path.splitext), whether
\* os.path.exists(path), and its content
FilesOf(workbooks) ==
    { [path |-> <<"timesheet", e>>, exists |-> FALSE, content |-> None] :
      e \in Extensions }
    \cup { [path |-> <<"timesheet", e>>, exists |-> TRUE, content |-> None] :
           e \in {".pdf", ".csv"} }
    \cup { [path |-> <<"timesheet", e>>, exists |-> TRUE, content |-> Some(w)] :
           e \in {".xlsx", ".XLSX", ".xls"}, w \in workbooks }

Files == FilesOf(Workbooks)

\* The loop of lines 39-42: the first row whose first cell, lower-cased, is
\* 'date'
daily_start_row(df) ==
    first({idx \in 0..(Len(df) - 1) : lower_str(str(iloc(df, idx, 0))) = <<"date">>})

\* str.startswith(prefix) on a text held as pieces
startswith(pieces, prefix) == pieces # <<>> /\ pieces[1] = prefix

\* The loop of lines 76-79: the first row whose first cell starts with
\* 'Total Regular Hours'
summary_start_row(df) ==
    first({idx \in 0..(Len(df) - 1) :
               startswith(str(iloc(df, idx, 0)), "Total Regular Hours")})

\* Position of the column labelled label, or None
column(columns, label) ==
    first({j \in 0..(Len(columns) - 1) : cell_of(columns, j) = Str(<<label>>)})

\* daily_df[label] as a sequence of cells (the column exists)
series(daily_df, columns, label) ==
    Only({ [i \in 1..Len(d) |-> cell_of(d[i], j)] :
           d \in {daily_df}, j \in {column(columns, label)[1]} })

\* daily_df[daily_df['status'].isin(statuses)]
with_status(daily_df, columns, statuses) ==
    Only({ SelectSeq(daily_df, LAMBDA r : cell_of(r, j) \in {Str(<<s>>) : s \in statuses}) :
           j \in {column(columns, "status")[1]} })

\* Mutant of working_hours: overtime is summed over the work days only
working_hours_WorkDayOvertime(daily_df, columns) ==
    LET work_days == with_status(daily_df, columns, {"Present", "Half Day"})
    IN  [ regular_hours  |-> sum(series(work_days, columns, "hours_worked")),
          overtime_hours |-> sum(series(work_days, columns, "overtime_hours")),
          leave_days     |-> Len(with_status(daily_df, columns, {"Leave"})),
          holiday_work_hours |->
              sum(series(with_status(daily_df, columns, {"Holiday Work"}),
                         columns, "hours_worked")) ]

\* Mutant of working_hours: every record that is not a leave counts as a
\* work day
working_hours_AllButLeave(daily_df, columns) ==
    LET work_days == with_status(daily_df, columns,
                                 {"Present", "Half Day", "Weekend", "Holiday Work"})
    IN  [ regular_hours  |-> sum(series(work_days, columns, "hours_worked")),
          overtime_hours |-> sum(series(daily_df, columns, "overtime_hours")),
          leave_days     |-> Len(with_status(daily_df, columns, {"Leave"})),
          holiday_work_hours |->
              sum(series(with_status(daily_df, columns, {"Holiday Work"}),
                         columns, "hours_worked")) ]

\* The working hours summary of lines 66-72 (the four columns exist)
working_hours(daily_df, columns) ==
    LET work_days == with_status(daily_df, columns, {"Present", "Half Day"})
    IN  [ regular_hours  |-> sum(series(work_days, columns, "hours_worked")),
          overtime_hours |-> sum(series(daily_df, columns, "overtime_hours")),
          leave_days     |-> Len(with_status(daily_df, columns, {"Leave"})),
          holiday_work_hours |->
              sum(series(with_status(daily_df, columns, {"Holiday Work"}),
                         columns, "hours_worked")) ]

\* The TimesheetData of lines 99-120
timesheet_data_of(df, hours, hourly_rate, overtime_rate) ==
    [ employee |-> [ employee_id  |-> employee_data_get(df, "Employee ID"),
                     name         |-> employee_data_get(df, "Name"),
                     department   |-> employee_data_get(df, "Department"),
                     designation  |-> employee_data_get(df, "Designation"),
                     email        |-> employee_data_get(df, "Email"),
                     bank_account |-> employee_data_get(df, "Bank Account") ],
      period |-> [start_date |-> str(iloc(df, 8, 1)), end_date |-> str(iloc(df, 9, 1))],
      hours |-> hours,
      hourly_rate |-> hourly_rate,
      overtime_rate |-> overtime_rate ]

\* Lines 81-90 and the return: the rates read at skiprows, then the result
read_rates(df, hours, skiprows) ==
    LET summary_df == SubSeq(df, skiprows + 1, Min(skiprows + summary_nrows, Len(df)))
    IN  IF Len(summary_df) < 5 THEN failure(IndexError)
        ELSE LET hourly_rate == float(cell_of(summary_df[5], 1))
             IN  IF hourly_rate.error # None THEN failure(hourly_rate.error[1])
                 ELSE IF Len(summary_df) < 6 THEN failure(IndexError)
                 ELSE LET overtime_rate == float(cell_of(summary_df[6], 1))
                      IN  IF overtime_rate.error # None
                          THEN failure(overtime_rate.error[1])
                          ELSE [success |-> TRUE,
                                data |-> Some(timesheet_data_of(df, hours,
                                                  hourly_rate.value, overtime_rate.value)),
                                error |-> None]

\* skiprows=summary_start_row: None skips no row
skiprows_of(summary_row) == IF summary_row = None THEN 0 ELSE summary_row[1]

\* Mutant of read_daily: the daily table is read to the end of the sheet, and
\* its rows with a blank date are kept
read_daily_Unbounded(df, k) ==
    LET columns == df[k + 1]
        daily_df == SubSeq(df, k + 2, Len(df))
    IN  IF column(columns, "date") = None
        THEN failure(<<"'date' column not found. Available columns: ">>
                         \o [j \in 1..Len(columns) |-> str(columns[j])[1]])
        ELSE IF \/ column(columns, "status") = None
                \/ column(columns, "hours_worked") = None
                \/ column(columns, "overtime_hours") = None
        THEN failure(<<"'status'">>)
        ELSE IF sum_raises(series(daily_df, columns, "overtime_hours"))
        THEN failure(TypeError)
        ELSE Only({ read_rates(df, working_hours(d, columns), skiprows) :
                    d \in {daily_df},
                    skiprows \in {skiprows_of(summary_start_row(df))} })

\* Lines 47-72: the daily table read at row k, then the rest
read_daily(df, k) ==
    LET columns == df[k + 1]
        rows == SubSeq(df, k + 2, Min(k + daily_nrows, Len(df)))
    IN  IF column(columns, "date") = None
        THEN failure(<<"'date' column not found. Available columns: ">>
                         \o [j \in 1..Len(columns) |-> str(columns[j])[1]])
        ELSE LET daily_df == Only({ SelectSeq(rows, LAMBDA r : notna(cell_of(r, j))) :
                                    j \in {column(columns, "date")[1]} })
             IN  IF column(columns, "status") = None THEN failure(<<"'status'">>)
                 ELSE IF column(columns, "hours_worked") = None
                 THEN failure(<<"'hours_worked'">>)
                 ELSE IF column(columns, "overtime_hours") = None
                 THEN failure(<<"'overtime_hours'">>)
                 ELSE IF \/ sum_raises(series(with_status(daily_df, columns,
                                                          {"Present", "Half Day"}),
                                              columns, "hours_worked"))
                         \/ sum_raises(series(daily_df, columns, "overtime_hours"))
                         \/ sum_raises(series(with_status(daily_df, columns,
                                                          {"Holiday Work"}),
                                              columns, "hours_worked"))
                 THEN failure(TypeError)
                 ELSE Only({ read_rates(df, working_hours(d, columns), skiprows) :
                             d \in {daily_df},
                             skiprows \in {skiprows_of(summary_start_row(df))} })

\* Mutant of parse_excel_timesheet: without a 'date' row the daily table is
\* read at its usual place
parse_excel_timesheet_DefaultRow(f) ==
    LET workbook == f.content[1]
        df == workbook.sheet
    IN  IF workbook.error # None THEN failure(workbook.error[1])
        ELSE IF Len(df) < 10 THEN failure(IndexError)
        ELSE IF daily_start_row(df) = None
        THEN (IF Len(df) < 13 THEN failure(IndexError) ELSE read_daily(df, 12))
        ELSE Only({read_daily(df, k) : k \in {daily_start_row(df)[1]}})

\* parse_excel_timesheet(file_path): the try block and its except branch
parse_excel_timesheet(f) ==
    LET workbook == f.content[1]
        df == workbook.sheet
    IN  IF workbook.error # None THEN failure(workbook.error[1])
        ELSE IF Len(df) < 10 THEN failure(IndexError)      \* iloc of lines 28-35
        ELSE IF daily_start_row(df) = None
        THEN failure(<<"Could not find daily attendance records in timesheet">>)
        ELSE Only({read_daily(df, k) : k \in {daily_start_row(df)[1]}})

parse_pdf_timesheet(f) ==
    [success |-> FALSE, data |-> None, error |-> Some(<<"PDF parsing not implemented yet">>)]

\* Mutant of process: the extension is looked at before the file
parser_process_ExtensionFirst(f) ==
    LET file_extension == lower(f.path[2])
    IN  IF file_extension \notin {".xlsx", ".xls", ".pdf"}
        THEN [success |-> FALSE, data |-> None,
              error |-> Some(<<"Unsupported file format: ", file_extension>>)]
        ELSE IF ~f.exists
        THEN [success |-> FALSE, data |-> None,
              error |-> Some(<<"File not found: ">> \o f.path)]
        ELSE IF file_extension = ".pdf" THEN parse_pdf_timesheet(f)
        ELSE parse_excel_timesheet(f)

\* TimesheetParserAgent.process(file_path)
parser_process(f) ==
    IF ~f.exists
    THEN [success |-> FALSE, data |-> None,
          error |-> Some(<<"File not found: ">> \o f.path)]
    ELSE LET file_extension == lower(f.path[2])
         IN  IF file_extension \in {".xlsx", ".xls"} THEN parse_excel_timesheet(f)
             ELSE IF file_extension = ".pdf" THEN parse_pdf_timesheet(f)
             ELSE [success |-> FALSE, data |-> None,
                   error |-> Some(<<"Unsupported file format: ", file_extension>>)]

(***************************************************************************)
(* agents/agent3_pdf_generator.py: SalarySlipGeneratorAgent                *)
(***************************************************************************)
output_dir == <<"salary_slips">>

\* str.replace(old, new) on a string held as pieces; new is a sequence
RECURSIVE replace(_, _, _)
replace(pieces, old, new) ==
    IF pieces = <<>> THEN <<>>
    ELSE (IF Head(pieces) = old THEN new ELSE <<Head(pieces)>>)
         \o replace(Tail(pieces), old, new)

generate_filename(employee_id, employee_name, period_end) ==
    LET clean_name == replace(employee_name, " ", <<"_">>)
        period == replace(period_end, "-", <<>>)
        filename == employee_id \o <<"_">> \o clean_name \o <<"_SalarySlip_">>
                    \o period \o <<".pdf">>
    IN  output_dir \o <<"/">> \o filename

\* What happens inside the try block of process: the PDF is written, or
\* create_salary_slip_pdf returns False, or an exception is raised
GenOutcomes == {"ok", "pdf_failed", "raised"}

\* SalarySlipGeneratorAgent.process(timesheet_data, salary_calculation), on
\* the Optional values the caller passes
generator_process(timesheet_data, salary_calculation, outcome) ==
    IF timesheet_data = None
    THEN [success |-> FALSE, file_path |-> None,
          error |-> Some(<<"'NoneType' object has no attribute 'employee'">>)]
    ELSE IF salary_calculation = None
    THEN [success |-> FALSE, file_path |-> None,
          error |-> Some(<<"validation error for SalarySlipData">>)]
    ELSE IF outcome = "raised"
    THEN [success |-> FALSE, file_path |-> None, error |-> Some(<<"generation error">>)]
    ELSE LET td == timesheet_data[1]
             output_path == generate_filename(td.employee.employee_id,
                                              td.employee.name, td.period.end_date)
             success == (outcome = "ok")
         IN  IF success
             THEN [success |-> TRUE, file_path |-> Some(output_path), error |-> None]
             ELSE [success |-> FALSE, file_path |-> None,
                   error |-> Some(<<"Failed to generate PDF">>)]

(***************************************************************************)
(* workflow.py: TimesheetWorkflow                                          *)
(***************************************************************************)
\* initial_state of process_timesheet
initial_state(f) ==
    [ timesheet_file_path |-> f.path,
      timesheet_data      |-> None,
      extraction_status   |-> "pending",
      extraction_error    |-> None,
      salary_calculation  |-> None,
      calculation_status  |-> "pending",
      calculation_error   |-> None,
      salary_slip_path    |-> None,
      generation_status   |-> "pending",
      generation_error    |-> None,
      workflow_status     |-> "started" ]

\* Mutant of edge: the last node loops back to the entry point
edge_Retry(node) ==
    CASE node = "parse_timesheet"  -> "calculate_salary"
      [] node = "calculate_salary" -> "generate_pdf"
      [] node = "generate_pdf"     -> "parse_timesheet"

\* _build_workflow: the edge leaving each node
edge(node) ==
    CASE node = "parse_timesheet"  -> "calculate_salary"
      [] node = "calculate_salary" -> "generate_pdf"
      [] node = "generate_pdf"     -> "END"

\* One invocation of an agent's process method, with its arguments
Call(agent, args) == [agent |-> agent, args |-> args]

Init ==
    /\ pc = "idle"
    /\ state = None
    /\ file = None
    /\ calls = <<>>
    /\ runs = 0
    /\ tax_in = 0 /\ tax_out = None /\ tax_prev = None
    /\ calc_in = None /\ calc_out = None /\ calc_prev = None
    /\ parse_in = None /\ parse_out = None
    /\ SlipIdle /\ BatchIdle

\* process_timesheet(timesheet_file_path) up to the entry of the graph
process_timesheet(f) ==
    /\ pc = "idle"
    /\ runs < MaxRuns
    /\ runs' = runs + 1
    /\ file' = Some(f)
    /\ state' = initial_state(f)
    /\ calls' = <<>>
    /\ pc' = "parse_timesheet"
    /\ UNCHANGED <<taxvars, calcvars, parsevars, slipvars, batchvars>>

\* Mutant of agent1_update: a failure leaves workflow_status as it was
agent1_update_NoStatus(st, result) ==
    IF result.success
    THEN [st EXCEPT !.timesheet_data = result.data,
                    !.extraction_status = "success",
                    !.extraction_error = None]
    ELSE [st EXCEPT !.timesheet_data = None,
                    !.extraction_status = "failed",
                    !.extraction_error = result.error]

\* Mutant of agent1_update: a failure does not record the error message
agent1_update_NoError(st, result) ==
    IF result.success
    THEN [st EXCEPT !.timesheet_data = result.data,
                    !.extraction_status = "success",
                    !.extraction_error = None]
    ELSE [st EXCEPT !.timesheet_data = None,
                    !.extraction_status = "failed",
                    !.workflow_status = "failed_at_parsing"]

\* The state agent1_parse_timesheet returns for the parser's result
agent1_update(st, result) ==
    IF result.success
    THEN [st EXCEPT !.timesheet_data = result.data,
                    !.extraction_status = "success",
                    !.extraction_error = None]
    ELSE [st EXCEPT !.timesheet_data = None,
                    !.extraction_status = "failed",
                    !.extraction_error = result.error,
                    !.workflow_status = "failed_at_parsing"]

\* Node parse_timesheet
agent1_parse_timesheet ==
    /\ pc = "parse_timesheet"
    /\ state' = agent1_update(state, parser_process(file[1]))
    /\ calls' = Append(calls, Call("parser_agent", <<state.timesheet_file_path>>))
    /\ pc' = edge("parse_timesheet")
    /\ UNCHANGED <<file, runs, taxvars, calcvars, parsevars, slipvars, batchvars>>

\* Mutant of agent2_skips: the calculator is never skipped
agent2_skips_Never(st) == FALSE

\* Whether agent2_calculate_salary skips the calculator
agent2_skips(st) == st.extraction_status # "success"

\* The state agent2_calculate_salary returns when it skips
agent2_skip(st) == [st EXCEPT !.calculation_status = "skipped"]

\* Mutant of agent2_update: a failure is reported as a parsing failure
agent2_update_WrongStage(st, result) ==
    IF result.success
    THEN [st EXCEPT !.salary_calculation = result.data,
                    !.calculation_status = "success",
                    !.calculation_error = None]
    ELSE [st EXCEPT !.salary_calculation = None,
                    !.calculation_status = "failed",
                    !.calculation_error = result.error,
                    !.workflow_status = "failed_at_parsing"]

\* The state agent2_calculate_salary returns for the calculator's result
agent2_update(st, result) ==
    IF result.success
    THEN [st EXCEPT !.salary_calculation = result.data,
                    !.calculation_status = "success",
                    !.calculation_error = None]
    ELSE [st EXCEPT !.salary_calculation = None,
                    !.calculation_status = "failed",
                    !.calculation_error = result.error,
                    !.workflow_status = "failed_at_calculation"]

\* Node calculate_salary
agent2_calculate_salary ==
    /\ pc = "calculate_salary"
    /\ \/ /\ agent2_skips(state)
          /\ state' = agent2_skip(state)
          /\ calls' = calls
       \/ /\ ~agent2_skips(state)
          /\ \E fault \in {None} \cup CalcFaults, now \in Dates,
                ups \in TieChoices, err \in FloatErrors :
                state' = agent2_update(state,
                             calculator_process(state.timesheet_data, fault, now, ups, err))
          /\ calls' = Append(calls, Call("calculator_agent", <<state.timesheet_data>>))
    /\ pc' = edge("calculate_salary")
    /\ UNCHANGED <<file, runs, taxvars, calcvars, parsevars, slipvars, batchvars>>

\* Mutant of agent3_skips: the check reads extraction_status
agent3_skips_OnExtraction(st) == st.extraction_status # "success"

\* Whether agent3_generate_pdf skips the generator
agent3_skips(st) == st.calculation_status # "success"

\* Mutant of agent3_skip: a skip also discards the extracted data
agent3_skip_DropsData(st) ==
    [st EXCEPT !.generation_status = "skipped", !.timesheet_data = None]

\* The state agent3_generate_pdf returns when it skips
agent3_skip(st) == [st EXCEPT !.generation_status = "skipped"]

\* Mutant of agent3_update: a success leaves workflow_status as it was
agent3_update_NotCompleted(st, result) ==
    IF result.success
    THEN [st EXCEPT !.salary_slip_path = result.file_path,
                    !.generation_status = "success",
                    !.generation_error = None]
    ELSE [st EXCEPT !.salary_slip_path = None,
                    !.generation_status = "failed",
                    !.generation_error = result.error,
                    !.workflow_status = "failed_at_generation"]

\* Mutant of agent3_update: a failure also discards the salary calculation
agent3_update_DropsCalculation(st, result) ==
    IF result.success
    THEN [st EXCEPT !.salary_slip_path = result.file_path,
                    !.generation_status = "success",
                    !.generation_error = None,
                    !.workflow_status = "completed"]
    ELSE [st EXCEPT !.salary_slip_path = None,
                    !.salary_calculation = None,
                    !.generation_status = "failed",
                    !.generation_error = result.error,
                    !.workflow_status = "failed_at_generation"]

\* The state agent3_generate_pdf returns for the generator's result
agent3_update(st, result) ==
    IF result.success
    THEN [st EXCEPT !.salary_slip_path = result.file_path,
                    !.generation_status = "success",
                    !.generation_error = None,
                    !.workflow_status = "completed"]
    ELSE [st EXCEPT !.salary_slip_path = None,
                    !.generation_status = "failed",
                    !.generation_error = result.error,
                    !.workflow_status = "failed_at_generation"]

\* Node generate_pdf
agent3_generate_pdf ==
    /\ pc = "generate_pdf"
    /\ \/ /\ agent3_skips(state)
          /\ state' = agent3_skip(state)
          /\ calls' = calls
       \/ /\ ~agent3_skips(state)
          /\ \E outcome \in GenOutcomes :
                state' = agent3_update(state,
                             generator_process(state.timesheet_data,
                                               state.salary_calculation, outcome))
          /\ calls' = Append(calls, Call("generator_agent",
                                         <<state.timesheet_data, state.salary_calculation>>))
    /\ pc' = edge("generate_pdf")
    /\ UNCHANGED <<file, runs, taxvars, calcvars, parsevars, slipvars, batchvars>>

\* workflow.invoke returns; process_timesheet prints the summary and returns
\* final_state
return_final_state ==
    /\ pc = "END"
    /\ pc' = "idle"
    /\ UNCHANGED <<state, file, calls, runs, taxvars, calcvars, parsevars, slipvars, batchvars>>

Next ==
    \/ \E f \in Files : process_timesheet(f)
    \/ agent1_parse_timesheet
    \/ agent2_calculate_salary
    \/ agent3_generate_pdf
    \/ return_final_state

Spec == Init /\ [][Next]_vars

\* The graph is run to its END by workflow.invoke: no node waits on anything
FairSpec == Spec /\ WF_vars(agent1_parse_timesheet) /\ WF_vars(agent2_calculate_salary)
                 /\ WF_vars(agent3_generate_pdf) /\ WF_vars(return_final_state)

(***************************************************************************)
(* TaxSpec: calculate_progressive_tax on bounded gross amounts             *)
(***************************************************************************)
BracketLimits == {0} \cup {tax_brackets[i].limit : i \in 1..(Len(tax_brackets) - 1)}

\* Gross amounts in cents: every cent within TaxWindow of 0 and of a bracket
\* limit, and the multiples of 500 dollars
GrossInputs ==
    { g \in { l + d : l \in BracketLimits, d \in (-TaxWindow)..TaxWindow } : g >= 0 }
    \cup { k * 50000 : k \in 0..MaxGrossK }

WorkflowIdle ==
    /\ pc = "idle" /\ state = None /\ file = None /\ calls = <<>> /\ runs = 0

TaxInit ==
    /\ WorkflowIdle
    /\ calc_in = None /\ calc_out = None /\ calc_prev = None
    /\ parse_in = None /\ parse_out = None
    /\ SlipIdle /\ BatchIdle
    /\ tax_in \in GrossInputs
    /\ tax_out = None
    /\ tax_prev = None

\* The first call, on the amount drawn
TaxApply ==
    /\ tax_out = None
    /\ \E up \in BOOLEAN : tax_out' = Some(calculate_progressive_tax(tax_in, up))
    /\ UNCHANGED <<tax_in, tax_prev, wfvars, calcvars, parsevars, slipvars, batchvars>>

\* A second call, on a larger amount
TaxRaise(g) ==
    /\ tax_out # None
    /\ tax_prev = None
    /\ g > tax_in
    /\ tax_prev' = Some([gross |-> tax_in, tax |-> tax_out[1]])
    /\ tax_in' = g
    /\ \E up \in BOOLEAN : tax_out' = Some(calculate_progressive_tax(g, up))
    /\ UNCHANGED <<wfvars, calcvars, parsevars, slipvars, batchvars>>

TaxNext ==
    \/ TaxApply
    \/ \E g \in GrossInputs : TaxRaise(g)

TaxSpec == TaxInit /\ [][TaxNext]_vars

(***************************************************************************)
(* CalcSpec: WageCalculatorAgent.process on bounded timesheet data         *)
(***************************************************************************)
CalcTimesheets ==
    TimesheetSet({0, full_month_hours - 1}
                     \cup {full_month_hours + 800 * k : k \in 0..MaxExtraDays},
                 {0, 250, 1225}, {0, 425, 800},
                 {3333, 4500, 4550}, {5001, 6750, 6825})

\* Whether the amounts computed for td depend on the direction of a tie
MeetsTie(td) ==
    calculator_process(Some(td), None, "2025-11-01", [s \in RoundSites |-> FALSE], 0)
        # calculator_process(Some(td), None, "2025-11-01", [s \in RoundSites |-> TRUE], 0)

CalcInit ==
    /\ WorkflowIdle
    /\ tax_in = 0 /\ tax_out = None /\ tax_prev = None
    /\ calc_in \in {Some(td) : td \in CalcTimesheets}
    /\ calc_out = None /\ calc_prev = None
    /\ parse_in = None /\ parse_out = None
    /\ SlipIdle /\ BatchIdle

CalcApply ==
    /\ calc_out = None
    /\ \E fault \in {None} \cup CalcFaults, now \in Dates,
          ups \in TieChoices, err \in FloatErrors :
          calc_out' = Some(calculator_process(calc_in, fault, now, ups, err))
    /\ UNCHANGED <<calc_in, calc_prev, wfvars, taxvars, parsevars, slipvars, batchvars>>

\* The tie directions and the float error of an argument on which no
\* rounding meets a tie: none of them changes a result
NoTie == [s \in RoundSites |-> FALSE]

\* A second call of process on the same argument, at a time of its own.
\* Float arithmetic repeats itself, so a tie falls as in the first call,
\* which the state does not record: the second call is taken on the
\* arguments that meet no tie.
CalcAgain ==
    /\ calc_out # None
    /\ calc_prev = None
    /\ ~MeetsTie(calc_in[1])
    /\ calc_prev' = calc_out
    /\ \E fault \in {None} \cup CalcFaults, now \in Dates :
          calc_out' = Some(calculator_process(calc_in, fault, now, NoTie, 0))
    /\ UNCHANGED <<calc_in, wfvars, taxvars, parsevars, slipvars, batchvars>>

CalcNext ==
    \/ CalcApply
    \/ CalcAgain

CalcSpec == CalcInit /\ [][CalcNext]_vars

(***************************************************************************)
(* ExactSpec: WageCalculatorAgent.process on the timesheet data for which  *)
(* no round(x, 2) meets a tie, so that every amount of a result is the one *)
(* the float arithmetic yields                                             *)
(***************************************************************************)
ExactTimesheets == {td \in CalcTimesheets : ~MeetsTie(td)}

ExactInit ==
    /\ WorkflowIdle
    /\ tax_in = 0 /\ tax_out = None /\ tax_prev = None
    /\ calc_in \in {Some(td) : td \in ExactTimesheets}
    /\ calc_out = None /\ calc_prev = None
    /\ parse_in = None /\ parse_out = None
    /\ SlipIdle /\ BatchIdle

ExactSpec == ExactInit /\ [][CalcNext]_vars

(***************************************************************************)
(* PaySpec: WageCalculatorAgent.process on timesheet data whose gross      *)
(* amounts lie one cent apart, then on data of a larger gross amount       *)
(***************************************************************************)
\* At 1.00 an hour, 301.50 h to (301.50 + PayWindow/100) h give the gross
\* amounts 1001.50, 1001.51, ... (allowance 500, bonus 200); the others are
\* a month without hours and full months
PayTimesheets ==
    { td \in TimesheetSet({30150 + k : k \in 0..PayWindow}, {0}, {0, 800}, {100}, {150})
              \cup TimesheetSet({0, full_month_hours - 1, full_month_hours}, {0, 250},
                                {0}, {100, 4500}, {6750}) :
          ~MeetsTie(td) }

PayInit ==
    /\ WorkflowIdle
    /\ tax_in = 0 /\ tax_out = None /\ tax_prev = None
    /\ calc_in \in {Some(td) : td \in PayTimesheets}
    /\ calc_out = None /\ calc_prev = None
    /\ parse_in = None /\ parse_out = None
    /\ SlipIdle /\ BatchIdle

\* A second call of process, on timesheet data td that meet no tie
CalcRaise(td) ==
    /\ calc_out # None
    /\ calc_prev = None
    /\ calc_prev' = calc_out
    /\ calc_in' = Some(td)
    /\ \E fault \in {None} \cup CalcFaults, now \in Dates :
          calc_out' = Some(calculator_process(Some(td), fault, now, NoTie, 0))
    /\ UNCHANGED <<wfvars, taxvars, parsevars, slipvars, batchvars>>

PayNext ==
    \/ CalcApply
    \/ \E td \in PayTimesheets : CalcRaise(td)

PaySpec == PayInit /\ [][PayNext]_vars

(***************************************************************************)
(* ParseSpec: TimesheetParserAgent.process on bounded documents            *)
(***************************************************************************)
\* Every document of the model as an .xlsx file, and the other kinds of
\* file with the standard document
ParseFiles ==
    { [path |-> <<"timesheet", ".xlsx">>, exists |-> TRUE, content |-> Some(Workbook(df))] :
      df \in Documents }
    \cup FilesOf({Unreadable,
                  Workbook(Layout(StandardIdentity, "date", ExampleDays, StandardSummary))})

ParseInit ==
    /\ WorkflowIdle
    /\ tax_in = 0 /\ tax_out = None /\ tax_prev = None
    /\ calc_in = None /\ calc_out = None /\ calc_prev = None
    /\ parse_in \in {Some(f) : f \in ParseFiles}
    /\ parse_out = None
    /\ SlipIdle /\ BatchIdle

ParseApply ==
    /\ parse_out = None
    /\ parse_out' = Some(parser_process(parse_in[1]))
    /\ UNCHANGED <<parse_in, wfvars, taxvars, calcvars, slipvars, batchvars>>

ParseNext == ParseApply

ParseSpec == ParseInit /\ [][ParseNext]_vars

(***************************************************************************)
(* SlipSpec: SalarySlipGeneratorAgent.generate_filename on the identities  *)
(* of two documents                                                        *)
(***************************************************************************)
\* The Python string a sequence of pieces stands for
RECURSIVE Join(_)
Join(pieces) == IF pieces = <<>> THEN "" ELSE Head(pieces) \o Join(Tail(pieces))

\* Employee ids, names and period ends as the parser hands them over: the
\* text of a cell, whatever it holds
SlipIds == {<<"EMP001">>, <<"EMP001", "_", "John">>}
SlipNames == {<<"John", " ", "Smith">>, <<"John", "_", "Smith">>, <<"Smith">>}
SlipPeriodEnds ==
    { <<"2025", "-", "10", "-", "31">>, <<"2025", "10", "31">>,
      <<"2025", "-", "11", "-", "30">> }

SlipIdentities ==
    { [employee_id |-> i, name |-> n, end_date |-> e] :
      i \in SlipIds, n \in SlipNames, e \in SlipPeriodEnds }

SlipInit ==
    /\ WorkflowIdle
    /\ tax_in = 0 /\ tax_out = None /\ tax_prev = None
    /\ calc_in = None /\ calc_out = None /\ calc_prev = None
    /\ parse_in = None /\ parse_out = None
    /\ BatchIdle
    /\ slip_in \in {Some(<<a, b>>) : a, b \in SlipIdentities}
    /\ slip_out = None

\* The output paths of the two documents (lines 254-258 of process)
SlipApply ==
    /\ slip_out = None
    /\ slip_out' = Some([k \in 1..2 |->
                            generate_filename(slip_in[1][k].employee_id,
                                              slip_in[1][k].name,
                                              slip_in[1][k].end_date)])
    /\ UNCHANGED <<slip_in, wfvars, taxvars, calcvars, parsevars, batchvars>>

SlipNext == SlipApply

SlipSpec == SlipInit /\ [][SlipNext]_vars

(***************************************************************************)
(* BatchSpec: main.py, process_all_timesheets over the files of a          *)
(* directory                                                               *)
(***************************************************************************)
timesheet_dir == "timesheets/excel"

\* The file names of the directory, and os.path.join(timesheet_dir, name)
\* without the extension
BatchNames == {"EMP00" \o ToString(i) \o "_Timesheet" : i \in 1..MaxRuns}
join(dir, name) == dir \o "/" \o name

\* os.path.basename of a path <<root, extension>> of the directory
basename(path) ==
    <<CHOOSE name \in BatchNames : join(timesheet_dir, name) = path[1], path[2]>>

\* What a file of the directory can hold
BatchWorkbooks ==
    { Unreadable,
      Workbook(Layout(StandardIdentity, "date",
                      <<DayRow(Dated, "Present", 800, 200),
                        DayRow(Dated, "Holiday Work", 800, 0)>>, StandardSummary)),
      Workbook(Layout(StandardIdentity, "day_date",
                      <<DayRow(Dated, "Present", 800, 200)>>, StandardSummary)) }

\* The files glob.glob(timesheet_dir/*.xlsx) can return
BatchFiles ==
    { [path |-> <<join(timesheet_dir, name), ".xlsx">>, exists |-> TRUE,
       content |-> Some(w)] : name \in BatchNames, w \in BatchWorkbooks }

\* The lists glob.glob can return: files of distinct paths, in any order
BatchLists ==
    { l \in UNION {[1..n -> BatchFiles] : n \in 0..MaxRuns} :
          \A i, j \in 1..Len(l) : i # j => l[i].path # l[j].path }

\* The entry appended to results for a final state (lines 57-63)
result_entry(final_state) ==
    [ file          |-> basename(final_state.timesheet_file_path),
      status        |-> final_state.workflow_status,
      salary_slip   |-> final_state.salary_slip_path,
      employee_name |-> IF final_state.timesheet_data # None
                        THEN final_state.timesheet_data[1].employee.name
                        ELSE <<"N/A">>,
      net_salary    |-> IF final_state.salary_calculation # None
                        THEN final_state.salary_calculation[1].net_salary
                        ELSE 0 ]

\* Mutant of counts_successful: a run counts unless it failed at parsing
counts_successful_NotParsing(final_state) ==
    final_state.workflow_status # "failed_at_parsing"

\* The test of line 65
counts_successful(final_state) == final_state.workflow_status = "completed"

BatchInit ==
    /\ pc = "idle" /\ state = None /\ file = None /\ calls = <<>> /\ runs = 0
    /\ tax_in = 0 /\ tax_out = None /\ tax_prev = None
    /\ calc_in = None /\ calc_out = None /\ calc_prev = None
    /\ parse_in = None /\ parse_out = None
    /\ SlipIdle
    /\ timesheet_files \in BatchLists
    /\ results = <<>>
    /\ successful = 0
    /\ failed = 0

\* The loop of lines 50-55: the next file is given to process_timesheet
batch_process ==
    /\ runs = Len(results)
    /\ runs < Len(timesheet_files)
    /\ process_timesheet(timesheet_files[runs + 1])

\* process_timesheet returns; lines 56-68 record the result
batch_record ==
    /\ pc = "END"
    /\ pc' = "idle"
    /\ results' = Append(results, result_entry(state))
    /\ IF counts_successful(state)
       THEN successful' = successful + 1 /\ failed' = failed
       ELSE successful' = successful /\ failed' = failed + 1
    /\ UNCHANGED <<state, file, calls, runs, timesheet_files,
                   taxvars, calcvars, parsevars, slipvars>>

BatchNext ==
    \/ batch_process
    \/ agent1_parse_timesheet
    \/ agent2_calculate_salary
    \/ agent3_generate_pdf
    \/ batch_record

\* The loop is sequential code: it runs until the list is exhausted
BatchSpec == BatchInit /\ [][BatchNext]_vars /\ WF_vars(BatchNext)

(***************************************************************************)
(* Properties of the workflow (Spec, FairSpec)                             *)
(***************************************************************************)
AtEnd == pc = "END"

Invoked(agent) == \E i \in 1..Len(calls) : calls[i].agent = agent

StageStatuses(st) ==
    <<st.extraction_status, st.calculation_status, st.generation_status>>
StageErrors(st) ==
    <<st.extraction_error, st.calculation_error, st.generation_error>>
FailedStages(st) == {i \in 1..3 : StageStatuses(st)[i] = "failed"}

\* C1: once a stage has failed, every downstream stage is skipped (never
\* failed, never success) and its agent is not invoked; after a failed
\* Extraction, Calculation and Handoff are skipped and salary_calculation
\* stays null.
C1_ShortCircuit ==
    runs > 0 =>
        /\ state.extraction_status = "failed" =>
              /\ state.calculation_status \in {"pending", "skipped"}
              /\ state.generation_status \in {"pending", "skipped"}
              /\ state.salary_calculation = None
              /\ ~Invoked("calculator_agent")
              /\ ~Invoked("generator_agent")
              /\ AtEnd => /\ state.calculation_status = "skipped"
                          /\ state.generation_status = "skipped"
        /\ state.calculation_status = "failed" =>
              /\ state.generation_status \in {"pending", "skipped"}
              /\ ~Invoked("generator_agent")
              /\ AtEnd => state.generation_status = "skipped"

C1_Witness ==
    /\ AtEnd
    /\ state.extraction_status = "failed"
    /\ state.calculation_status = "skipped"
    /\ state.generation_status = "skipped"
    /\ calls = <<Call("parser_agent", <<state.timesheet_file_path>>)>>

\* C2: whenever generator_agent.process is invoked, extraction_status and
\* calculation_status are success and both arguments, timesheet_data and
\* salary_calculation, are non-null.
C2_HandoffPrecondition ==
    \A i \in 1..Len(calls) :
        calls[i].agent = "generator_agent" =>
            /\ state.extraction_status = "success"
            /\ state.calculation_status = "success"
            /\ calls[i].args[1] # None
            /\ calls[i].args[2] # None
            /\ calls[i].args = <<state.timesheet_data, state.salary_calculation>>

C2_Witness ==
    /\ Invoked("generator_agent")
    /\ state.generation_status = "failed"

TerminalStatuses ==
    {"completed", "failed_at_parsing", "failed_at_calculation", "failed_at_generation"}

\* C3: every run of process_timesheet reaches the END of the graph, and
\* there the workflow status is one of the four terminal statuses and no
\* stage is still pending.
C3_Terminates ==
    /\ [](pc = "parse_timesheet" => <>AtEnd)
    /\ [](AtEnd => /\ state.workflow_status \in TerminalStatuses
                   /\ \A i \in 1..3 : StageStatuses(state)[i] # "pending")

C3_Witness ==
    /\ AtEnd
    /\ runs = MaxRuns
    /\ state.workflow_status = "failed_at_parsing"

\* C4: at termination workflow_status = failed_at_X exactly when stage X has
\* status failed, and at most one stage has failed.
C4_StatusNamesFailedStage ==
    AtEnd =>
        /\ (state.workflow_status = "failed_at_parsing")
               <=> (state.extraction_status = "failed")
        /\ (state.workflow_status = "failed_at_calculation")
               <=> (state.calculation_status = "failed")
        /\ (state.workflow_status = "failed_at_generation")
               <=> (state.generation_status = "failed")
        /\ Cardinality(FailedStages(state)) <= 1

C4_Witness ==
    /\ AtEnd
    /\ state.workflow_status = "failed_at_calculation"
    /\ FailedStages(state) = {2}

\* C5: at termination workflow_status is completed if and only if the three
\* stage statuses are all success.
C5_CompletedIffAllSuccess ==
    AtEnd =>
        ((state.workflow_status = "completed")
            <=> (\A i \in 1..3 : StageStatuses(state)[i] = "success"))

C5_Witness ==
    /\ AtEnd
    /\ state.workflow_status = "completed"
    /\ state.salary_slip_path # None

\* C6: at the end of a run that did not complete, exactly one stage has
\* failed and it carries a non-empty error message, and every stage that
\* succeeded or was skipped carries no error message.
C6_FailureReported ==
    (AtEnd /\ state.workflow_status # "completed") =>
        /\ Cardinality(FailedStages(state)) = 1
        /\ \A i \in 1..3 :
              /\ StageStatuses(state)[i] = "failed" =>
                    /\ StageErrors(state)[i] # None
                    /\ StageErrors(state)[i][1] # <<>>
              /\ StageStatuses(state)[i] \in {"success", "skipped"} =>
                    StageErrors(state)[i] = None

C6_Witness ==
    /\ AtEnd
    /\ state.generation_status = "failed"
    /\ state.generation_error = Some(<<"Failed to generate PDF">>)
    /\ state.extraction_error = None
    /\ state.calculation_error = None

\* The agents in the order of the graph
AgentOrder == <<"parser_agent", "calculator_agent", "generator_agent">>
AgentRank(agent) == CHOOSE i \in 1..3 : AgentOrder[i] = agent

\* C7: within one run each agent is invoked at most once, in the order
\* parser, calculator, generator; every stage status has left pending when
\* the run ends, and a status that has left pending never changes again.
C7_NoRetries ==
    /\ [](\A i, j \in 1..Len(calls) :
              i < j => AgentRank(calls[i].agent) < AgentRank(calls[j].agent))
    /\ [](AtEnd => \A i \in 1..3 : StageStatuses(state)[i] # "pending")
    /\ [][ pc # "idle" =>
              \A i \in 1..3 :
                  StageStatuses(state)[i] # "pending" =>
                      StageStatuses(state')[i] = StageStatuses(state)[i] ]_vars

C7_Witness ==
    /\ AtEnd
    /\ Len(calls) = 3
    /\ \A i \in 1..3 : calls[i].agent = AgentOrder[i]

\* The fields of the state other than a given one are left as they are
OnlyFieldChanged(fld) == \A g \in (DOMAIN state) \ {fld} : state'[g] = state[g]

\* C25: a step of calculate_salary taken after an extraction that did not
\* succeed sets calculation_status to skipped and changes no other field;
\* a step of generate_pdf taken after a calculation that did not succeed
\* sets generation_status to skipped and changes no other field; neither
\* invokes an agent.
C25_SkipChangesOnlyStatus ==
    [][ /\ (pc = "calculate_salary" /\ state.extraction_status # "success") =>
              /\ state'.calculation_status = "skipped"
              /\ OnlyFieldChanged("calculation_status")
              /\ calls' = calls
        /\ (pc = "generate_pdf" /\ state.calculation_status # "success") =>
              /\ state'.generation_status = "skipped"
              /\ OnlyFieldChanged("generation_status")
              /\ calls' = calls ]_vars

C25_Witness ==
    /\ AtEnd
    /\ state.calculation_status = "failed"
    /\ state.generation_status = "skipped"
    /\ state.workflow_status = "failed_at_calculation"
    /\ state.timesheet_data # None
    /\ state.generation_error = None
    /\ state.salary_slip_path = None

\* C27: a run on a path that does not exist, or whose extension is neither
\* .xlsx nor .xls in any case, ends with extraction failed, calculation and
\* generation skipped, workflow status failed_at_parsing and only the parser
\* invoked; the error is 'File not found' with the path when the path does
\* not exist, whatever its extension, 'PDF parsing not implemented yet' for
\* a .pdf and 'Unsupported file format' with the extension otherwise.
C27_UnreadableInput ==
    (AtEnd /\ (~file[1].exists \/ file[1].path[2] \notin {".xlsx", ".XLSX", ".xls"})) =>
        /\ state.extraction_status = "failed"
        /\ state.calculation_status = "skipped"
        /\ state.generation_status = "skipped"
        /\ state.workflow_status = "failed_at_parsing"
        /\ state.timesheet_data = None
        /\ calls = <<Call("parser_agent", <<file[1].path>>)>>
        /\ state.extraction_error =
              IF ~file[1].exists
              THEN Some(<<"File not found: ", file[1].path[1], file[1].path[2]>>)
              ELSE IF file[1].path[2] = ".pdf"
              THEN Some(<<"PDF parsing not implemented yet">>)
              ELSE Some(<<"Unsupported file format: ", file[1].path[2]>>)

C27_Witness ==
    /\ AtEnd
    /\ ~file[1].exists
    /\ file[1].path[2] = ".csv"
    /\ state.extraction_error = Some(<<"File not found: ", "timesheet", ".csv">>)
    /\ state.workflow_status = "failed_at_parsing"

\* C29: in every state of a run, timesheet_data is set exactly when
\* extraction_status is success, salary_calculation exactly when
\* calculation_status is success, and salary_slip_path exactly when
\* generation_status is success, which is exactly when the workflow status is
\* completed; a run that failed at generation holds its salary_calculation.
C29_FieldsTrackStatus ==
    runs > 0 =>
        /\ (state.timesheet_data # None) <=> (state.extraction_status = "success")
        /\ (state.salary_calculation # None) <=> (state.calculation_status = "success")
        /\ (state.salary_slip_path # None) <=> (state.generation_status = "success")
        /\ (state.salary_slip_path # None) <=> (state.workflow_status = "completed")
        /\ state.workflow_status = "failed_at_generation" =>
              state.salary_calculation # None

C29_Witness ==
    /\ AtEnd
    /\ state.workflow_status = "failed_at_generation"
    /\ state.generation_error = Some(<<"generation error">>)
    /\ state.salary_calculation # None
    /\ state.salary_slip_path = None

(***************************************************************************)
(* Properties of calculate_progressive_tax (TaxSpec)                       *)
(***************************************************************************)
Max(a, b) == IF a >= b THEN a ELSE b
Abs(a) == IF a >= 0 THEN a ELSE -a

RECURSIVE SumTo(_, _)
SumTo(f, n) == IF n = 0 THEN 0 ELSE f[n] + SumTo(f, n - 1)

\* The limit below bracket i
LowerLimit(i) == IF i = 1 THEN 0 ELSE tax_brackets[i - 1].limit

\* The marginal-bracket integral of gross (cents), in 1/TaxScale cents: the
\* sum over the brackets of rate x (portion of gross between the limits)
MarginalIntegral(gross) ==
    SumTo([i \in 1..Len(tax_brackets) |->
              tax_brackets[i].rate
                  * Max(0, Min(gross, tax_brackets[i].limit) - LowerLimit(i))],
          Len(tax_brackets))

\* C8: the tax returned is the marginal-bracket integral of gross rounded
\* to the nearest cent, with tax(1000) = 100.00, tax(3000) = 340.00,
\* tax(5000) = 780.00, tax(6000) = 1020.00 and tax(0) = 0.
C8_MarginalIntegral ==
    tax_out # None =>
        /\ 2 * Abs(TaxScale * tax_out[1] - MarginalIntegral(tax_in)) <= TaxScale
        /\ tax_in = 0 => tax_out[1] = 0
        /\ tax_in = 100000 => tax_out[1] = 10000
        /\ tax_in = 300000 => tax_out[1] = 34000
        /\ tax_in = 500000 => tax_out[1] = 78000
        /\ tax_in = 600000 => tax_out[1] = 102000

C8_Witness ==
    /\ tax_in = 600000
    /\ tax_out = Some(102000)

\* Whether g1 <= g2 lie in one bracket, and that bracket's rate
InBracket(i, g1, g2) ==
    /\ LowerLimit(i) <= g1
    /\ g1 <= g2
    /\ g2 <= tax_brackets[i].limit

\* C9 as stated: for g1 <= g2 the tax does not decrease, and its increase
\* equals the rate of the bracket times the increase of gross.
C9_ExactSlope ==
    tax_prev # None =>
        /\ tax_prev[1].tax <= tax_out[1]
        /\ \A i \in 1..Len(tax_brackets) :
              InBracket(i, tax_prev[1].gross, tax_in) =>
                  TaxScale * (tax_out[1] - tax_prev[1].tax)
                      = tax_brackets[i].rate * (tax_in - tax_prev[1].gross)

\* C9 as amended: for g1 <= g2 the tax does not decrease, and within one
\* bracket its increase is within one cent of rate x (g2 - g1).
C9_MonotoneSlopeToTheCent ==
    tax_prev # None =>
        /\ tax_prev[1].tax <= tax_out[1]
        /\ \A i \in 1..Len(tax_brackets) :
              InBracket(i, tax_prev[1].gross, tax_in) =>
                  Abs(TaxScale * (tax_out[1] - tax_prev[1].tax)
                          - tax_brackets[i].rate * (tax_in - tax_prev[1].gross))
                      <= TaxScale

C9_Witness ==
    /\ tax_prev # None
    /\ InBracket(3, tax_prev[1].gross, tax_in)
    /\ tax_in = tax_prev[1].gross + 1
    /\ tax_out[1] = tax_prev[1].tax + 1

\* The loop of calculate_progressive_tax with the exit test
\* gross_salary < bracket["limit"] in place of <=
RECURSIVE StrictExitLoop(_, _, _, _)
StrictExitLoop(i, tax, previous_limit, gross_salary) ==
    IF i > Len(tax_brackets) THEN tax
    ELSE LET bracket == tax_brackets[i]
         IN  IF gross_salary > previous_limit
             THEN LET taxable_in_bracket ==
                          Min(gross_salary - previous_limit,
                              bracket.limit - previous_limit)
                      tax2 == tax + taxable_in_bracket * bracket.rate
                  IN  IF gross_salary < bracket.limit
                      THEN tax2
                      ELSE StrictExitLoop(i + 1, tax2, bracket.limit, gross_salary)
             ELSE StrictExitLoop(i + 1, tax, previous_limit, gross_salary)

\* C26: for every gross >= 0, a bracket limit included, the tax returned is
\* the one the loop with the strict exit test gross < limit gives.
C26_StrictExitSame ==
    tax_out # None =>
        /\ TaxLoop(1, 0, 0, tax_in) = StrictExitLoop(1, 0, 0, tax_in)
        /\ \E up \in BOOLEAN :
               tax_out[1] = Round2(StrictExitLoop(1, 0, 0, tax_in), TaxScale, up)

C26_Witness ==
    /\ tax_in = 300000
    /\ tax_out = Some(34000)
    /\ tax_prev # None
    /\ tax_prev[1] = [gross |-> 100000, tax |-> 10000]

(***************************************************************************)
(* Properties of WageCalculatorAgent.process (CalcSpec)                    *)
(***************************************************************************)
\* C10: in every result of process, net_salary equals
\* gross_salary.total_gross minus deductions.total_deductions, in cents.
C10_Conservation ==
    (calc_out # None /\ calc_out[1].success) =>
        LET sc == calc_out[1].data[1]
        IN  sc.net_salary = sc.gross_salary.total_gross - sc.deductions.total_deductions

C10_Witness ==
    /\ calc_out # None
    /\ calc_out[1].success
    /\ calc_in[1].hours.regular_hours = full_month_hours - 1
    /\ calc_out[1].data[1].net_salary > 0
    /\ calc_out[1].data[1].deductions.total_deductions > 0

\* The GrossSalary and Deductions of a successful result
CalcDone == calc_out # None /\ calc_out[1].success
Gross == calc_out[1].data[1].gross_salary
Deducted == calc_out[1].data[1].deductions

\* C11: in every GrossSalary returned, total_gross equals base_pay +
\* overtime_pay + allowances + bonuses, in cents.
C11_TotalIsSumOfFields ==
    CalcDone =>
        Gross.total_gross
            = Gross.base_pay + Gross.overtime_pay + Gross.allowances + Gross.bonuses

\* C12: in every Deductions returned, total_deductions equals income_tax +
\* social_security + insurance + provident_fund + other_deductions, in cents.
C12_TotalIsSumOfFields ==
    CalcDone =>
        Deducted.total_deductions
            = Deducted.income_tax + Deducted.social_security + Deducted.insurance
                + Deducted.provident_fund + Deducted.other_deductions

\* Whether cents is a nearest cent of the amount num / GrossScale cents
NearestCent(cents, num) == 2 * Abs(GrossScale * cents - num) <= GrossScale

C14_BonusThreshold ==
    CalcDone =>
        LET regular_hours == calc_in[1].hours.regular_hours
        IN  /\ Gross.bonuses = (IF regular_hours >= 160 * 100 THEN 200 * 100 ELSE 0)
            /\ regular_hours = 16000 => Gross.bonuses = 20000
            /\ regular_hours = 15999 => Gross.bonuses = 0

C14_Witness ==
    /\ CalcDone
    /\ calc_in[1].hours.regular_hours = 16000
    /\ Gross.bonuses = 20000

(***************************************************************************)
(* Properties of WageCalculatorAgent.process on two arguments (PaySpec)    *)
(***************************************************************************)
\* The argument of the call has no negative hours or rate
NonNegative(td) ==
    /\ td.hours.regular_hours >= 0 /\ td.hours.overtime_hours >= 0
    /\ td.hours.holiday_work_hours >= 0
    /\ td.hourly_rate >= 0 /\ td.overtime_rate >= 0

\* total_gross >= 500, total_deductions < total_gross and net_salary > 0 in
\* the result of the last call
PayWithinBounds ==
    (CalcDone /\ NonNegative(calc_in[1])) =>
        /\ Gross.total_gross >= allowances_fixed
        /\ Deducted.total_deductions < Gross.total_gross
        /\ calc_out[1].data[1].net_salary > 0

\* The total_gross and net_salary of the call before and of the last call,
\* when both succeeded
BothDone == CalcDone /\ calc_prev # None /\ calc_prev[1].success
GrossBefore == calc_prev[1].data[1].gross_salary.total_gross
NetBefore == calc_prev[1].data[1].net_salary
NetNow == calc_out[1].data[1].net_salary

\* C30: with non-negative hours and rates, total_gross >= 500,
\* total_deductions < total_gross, net_salary > 0, and of two results the
\* one with the larger total_gross has a net_salary at least as large.
C30_NetNonDecreasing ==
    /\ PayWithinBounds
    /\ (BothDone /\ GrossBefore <= Gross.total_gross) => NetBefore <= NetNow

(***************************************************************************)
(* Properties of TimesheetParserAgent.process (ParseSpec)                  *)
(***************************************************************************)
\* Whether a file is a readable Excel workbook, and its rows
IsSheet(f) ==
    /\ f.exists
    /\ f.path[2] \in {".xlsx", ".XLSX", ".xls"}
    /\ f.content[1].error = None
SheetOf(f) == f.content[1].sheet

ParseDone == parse_out # None
Extracted == parse_out[1].data[1]

\* The retained daily records of a sheet with a 'date' row: the rows of the
\* bounded read below that row whose date cell is not blank
Retained(df) ==
    LET k == daily_start_row(df)[1]
    IN  SelectSeq(SubSeq(df, k + 2, Min(k + daily_nrows, Len(df))),
                  LAMBDA r : notna(cell_of(r, 0)))

\* status, hours_worked and overtime_hours of a record in the layout of
\* DailyHeader("date"); a blank number counts as 0
StatusOf(r) == cell_of(r, 2).text
HoursWorkedOf(r) == cell_of(r, 3).num
OvertimeOf(r) == cell_of(r, 4).num

\* The buckets the aggregation rules give for a sequence of records
Buckets(recs) ==
    LET n == Len(recs)
    IN  [ regular_hours |->
              SumTo([i \in 1..n |-> IF StatusOf(recs[i]) \in {<<"Present">>, <<"Half Day">>}
                                    THEN HoursWorkedOf(recs[i]) ELSE 0], n),
          overtime_hours |-> SumTo([i \in 1..n |-> OvertimeOf(recs[i])], n),
          leave_days |-> Cardinality({i \in 1..n : StatusOf(recs[i]) = <<"Leave">>}),
          holiday_work_hours |->
              SumTo([i \in 1..n |-> IF StatusOf(recs[i]) = <<"Holiday Work">>
                                    THEN HoursWorkedOf(recs[i]) ELSE 0], n) ]

\* C15: the hours summary of a successful extraction has regular hours =
\* sum of hours_worked over the retained records with status Present or
\* Half Day, overtime hours = sum of overtime_hours over all of them, leave
\* days = number with status Leave, holiday-work hours = sum of hours_worked
\* over those with status Holiday Work; 20 Present at 8 h, 2 Half Day at
\* 4 h, 3 Leave and 1 Holiday Work at 8 h give 168, 3 and 8.
C15_Aggregation ==
    (ParseDone /\ parse_out[1].success) =>
        LET recs == Retained(SheetOf(parse_in[1]))
        IN  /\ Extracted.hours = Buckets(recs)
            /\ (SelectSeq(recs, LAMBDA r : StatusOf(r) # <<>>) = ExampleDays) =>
                  (/\ Extracted.hours.regular_hours = 168 * 100
                   /\ Extracted.hours.leave_days = 3
                   /\ Extracted.hours.holiday_work_hours = 8 * 100)

C15_Witness ==
    /\ ParseDone
    /\ parse_out[1].success
    /\ SheetOf(parse_in[1]) = Layout(StandardIdentity, "date", ExampleDays, StandardSummary)
    /\ Extracted.hours = [regular_hours |-> 16800, overtime_hours |-> 0,
                          leave_days |-> 3, holiday_work_hours |-> 800]

\* The records whose status is not Weekend, and the Weekend ones
NotWeekend(recs) == SelectSeq(recs, LAMBDA r : StatusOf(r) # <<"Weekend">>)
Weekend(recs) == SelectSeq(recs, LAMBDA r : StatusOf(r) = <<"Weekend">>)

\* C16 as stated: the hours summary is the one of the records that are not
\* Weekend records: a Weekend record adds nothing to any bucket, whatever
\* its hours fields hold.
C16_WeekendAddsNothing ==
    (ParseDone /\ parse_out[1].success) =>
        Extracted.hours = Buckets(NotWeekend(Retained(SheetOf(parse_in[1]))))

\* C16 as amended: Weekend records add nothing to regular hours, leave days
\* and holiday-work hours whatever their fields hold, and add their
\* overtime_hours fields to the overtime hours.
C16_WeekendAddsOnlyOvertime ==
    (ParseDone /\ parse_out[1].success) =>
        LET recs == Retained(SheetOf(parse_in[1]))
            rest == Buckets(NotWeekend(recs))
        IN  /\ Extracted.hours.regular_hours = rest.regular_hours
            /\ Extracted.hours.leave_days = rest.leave_days
            /\ Extracted.hours.holiday_work_hours = rest.holiday_work_hours
            /\ Extracted.hours.overtime_hours
                   = rest.overtime_hours + Buckets(Weekend(recs)).overtime_hours

C16_Witness ==
    /\ ParseDone
    /\ parse_out[1].success
    /\ \E i \in 1..Len(Retained(SheetOf(parse_in[1]))) :
           Retained(SheetOf(parse_in[1]))[i] = DayRow(Dated, "Weekend", 800, 200)
    /\ Extracted.hours.regular_hours = 800
    /\ Extracted.hours.overtime_hours = 200

\* Whether no row of the sheet has a first cell equal to 'date', whatever
\* the case of its letters
NoDateRow(df) ==
    \A i \in 1..Len(df) :
        cell_of(df[i], 0).text \notin {<<"date">>, <<"Date">>, <<"DATE">>}

\* C17: a run on a sheet with no row whose first cell equals 'date' ends
\* with extraction failed on a structural error (the daily records were not
\* found, or the sheet is too short to hold them), timesheet_data null and
\* workflow status failed_at_parsing.
C17_MissingDateRow ==
    (runs > 0 /\ state.extraction_status # "pending"
        /\ IsSheet(file[1]) /\ NoDateRow(SheetOf(file[1]))) =>
        /\ state.extraction_status = "failed"
        /\ state.workflow_status = "failed_at_parsing"
        /\ state.timesheet_data = None
        /\ state.extraction_error
               \in {Some(<<"Could not find daily attendance records in timesheet">>),
                    Some(IndexError)}

C17_Witness ==
    /\ AtEnd
    /\ IsSheet(file[1])
    /\ NoDateRow(SheetOf(file[1]))
    /\ Len(SheetOf(file[1])) > 12
    /\ SheetOf(file[1])[13] = DailyHeader("day")
    /\ state.workflow_status = "failed_at_parsing"
    /\ state.extraction_error
           = Some(<<"Could not find daily attendance records in timesheet">>)

\* Whether no row of the sheet has a first cell that starts with 'Total
\* Regular Hours'
NoSummaryRow(df) ==
    \A i \in 1..Len(df) :
        \/ cell_of(df[i], 0).text = <<>>
        \/ cell_of(df[i], 0).text[1] # "Total Regular Hours"

\* C18: extraction of a sheet with no row whose first cell starts with
\* 'Total Regular Hours' fails with an error; it never succeeds with rates
\* taken from elsewhere in the sheet.
C18_MissingSummaryRowFails ==
    (ParseDone /\ IsSheet(parse_in[1]) /\ NoSummaryRow(SheetOf(parse_in[1]))) =>
        /\ ~parse_out[1].success
        /\ parse_out[1].error # None

\* C19: a timesheet with a negative hourly rate, overtime rate or hours
\* value is rejected by the extraction: timesheet_data never holds one, the
\* calculator is never invoked with one, and no salary_calculation is
\* computed from one.
C19_NegativeInputRejected ==
    (runs > 0 /\ state.timesheet_data # None) =>
        LET td == state.timesheet_data[1]
        IN  /\ td.hourly_rate >= 0
            /\ td.overtime_rate >= 0
            /\ td.hours.regular_hours >= 0
            /\ td.hours.overtime_hours >= 0
            /\ td.hours.holiday_work_hours >= 0

\* C20: whenever extraction succeeds, the employee id and the name
\* extracted are not empty.
C20_IdentityNotEmpty ==
    (ParseDone /\ parse_out[1].success) =>
        /\ Extracted.employee.employee_id # <<>>
        /\ Extracted.employee.name # <<>>

\* C21: two calls of process on the same timesheet data that both succeed
\* return the same SalaryCalculation in every field (employee id, gross
\* breakdown, deduction breakdown, net salary, calculation date), whenever
\* each call is made.
C21_SameResultTwice ==
    (calc_prev # None /\ calc_prev[1].success /\ calc_out[1].success) =>
        calc_out[1].data = calc_prev[1].data

\* The rows (counted from 0) whose first cell is 'date' in any case, those
\* whose first cell starts with 'Total Regular Hours', and the topmost row
\* of a set
DateRows(df) ==
    {idx \in 0..(Len(df) - 1) :
         cell_of(df[idx + 1], 0).text \in {<<"date">>, <<"Date">>, <<"DATE">>}}
SummaryRows(df) ==
    {idx \in 0..(Len(df) - 1) :
         /\ cell_of(df[idx + 1], 0).text # <<>>
         /\ cell_of(df[idx + 1], 0).text[1] = "Total Regular Hours"}
Topmost(rows) == CHOOSE i \in rows : \A j \in rows : i <= j

\* The at most 31 rows below row k, and those of them with a date
WindowBelow(df, k) == SubSeq(df, k + 2, Min(k + 32, Len(df)))
RecordsBelow(df, k) == SelectSeq(WindowBelow(df, k), LAMBDA r : notna(cell_of(r, 0)))

\* The document a sheet is without the later matches appended to it, or None
WithoutLater(f) ==
    LET df == SheetOf(f)
        cut == {later \in LaterMatches :
                    /\ Len(df) > Len(later)
                    /\ SubSeq(df, Len(df) - Len(later) + 1, Len(df)) = later}
    IN  IF cut = {} THEN None
        ELSE Some([f EXCEPT !.content =
                      Some(Workbook(SubSeq(df, 1, Len(df) - Len(CHOOSE l \in cut : TRUE))))])

\* C23: when several rows have a first cell equal to 'date' in any case, or
\* starting with 'Total Regular Hours', a successful extraction takes its
\* daily records below the topmost 'date' row and its rates from the block
\* of the topmost summary row; rows appended below the summary that match
\* again leave the result as it is without them, except that a second
\* header row inside the daily read makes the sums fail.
C23_FirstMatchWins ==
    (ParseDone /\ IsSheet(parse_in[1])) =>
        LET df == SheetOf(parse_in[1])
            base == WithoutLater(parse_in[1])
        IN  /\ parse_out[1].success =>
                  /\ Extracted.hours = Buckets(RecordsBelow(df, Topmost(DateRows(df))))
                  /\ SummaryRows(df) # {} =>
                        /\ Extracted.hourly_rate
                               = cell_of(df[Topmost(SummaryRows(df)) + 5], 1).num
                        /\ Extracted.overtime_rate
                               = cell_of(df[Topmost(SummaryRows(df)) + 6], 1).num
            /\ base # None =>
                  \/ parse_out[1] = parser_process(base[1])
                  \/ /\ parse_out[1] = failure(TypeError)
                     /\ \E r \in 1..Len(WindowBelow(df, Topmost(DateRows(df)))) :
                            WindowBelow(df, Topmost(DateRows(df)))[r] = DailyHeader("date")

C23_Witness ==
    /\ ParseDone
    /\ IsSheet(parse_in[1])
    /\ Cardinality(DateRows(SheetOf(parse_in[1]))) = 2
    /\ SheetOf(parse_in[1])[Len(SheetOf(parse_in[1]))] = DayRow(Dated, "Present", 800, 200)
    /\ parse_out[1].success
    /\ Extracted.hours.regular_hours = 31 * 800
    /\ Extracted.hours.overtime_hours = 0

\* C24: the hours summary of a successful extraction is taken from the 31
\* rows below the 'date' header row at most: rows of them with a blank date
\* cell count in no bucket, and rows further down count in none either.
C24_DailyWindow ==
    (ParseDone /\ parse_out[1].success) =>
        LET df == SheetOf(parse_in[1])
            k == Topmost(DateRows(df))
            below == SubSeq(df, k + 2, Len(df))
            kept == {i \in 1..Len(below) : i <= 31 /\ cell_of(below[i], 0).kind # "nan"}
            field(i, col, statuses) ==
                IF i \in kept /\ StatusOf(below[i]) \in statuses
                THEN cell_of(below[i], col).num ELSE 0
        IN  /\ Extracted.hours.regular_hours
                   = SumTo([i \in 1..Len(below) |->
                               field(i, 3, {<<"Present">>, <<"Half Day">>})], Len(below))
            /\ Extracted.hours.overtime_hours
                   = SumTo([i \in 1..Len(below) |->
                               IF i \in kept THEN cell_of(below[i], 4).num ELSE 0],
                           Len(below))
            /\ Extracted.hours.holiday_work_hours
                   = SumTo([i \in 1..Len(below) |-> field(i, 3, {<<"Holiday Work">>})],
                           Len(below))
            /\ Extracted.hours.leave_days
                   = Cardinality({i \in kept : StatusOf(below[i]) = <<"Leave">>})

\* 31 work days of 8 h, then a work day with overtime and a holiday worked,
\* both below the rows read
C24_Witness ==
    /\ ParseDone
    /\ parse_out[1].success
    /\ Len(SheetOf(parse_in[1])) > 46
    /\ SubSeq(SheetOf(parse_in[1]), 45, 46)
           = <<DayRow(Dated, "Present", 800, 200), DayRow(Dated, "Holiday Work", 800, 0)>>
    /\ Extracted.hours = [regular_hours |-> 31 * 800, overtime_hours |-> 0,
                          leave_days |-> 0, holiday_work_hours |-> 0]

(***************************************************************************)
(* Properties of generate_filename (SlipSpec)                              *)
(***************************************************************************)
\* C22: two documents that differ in employee id, name or period end get
\* different output paths.
C22_DistinctPaths ==
    slip_out # None =>
        LET a == slip_in[1][1]
            b == slip_in[1][2]
        IN  (\/ Join(a.employee_id) # Join(b.employee_id)
             \/ Join(a.name) # Join(b.name)
             \/ Join(a.end_date) # Join(b.end_date))
                => Join(slip_out[1][1]) # Join(slip_out[1][2])

(***************************************************************************)
(* Properties of process_all_timesheets (BatchSpec)                        *)
(***************************************************************************)
\* The state a run starts from
FreshState(st) ==
    /\ StageStatuses(st) = <<"pending", "pending", "pending">>
    /\ StageErrors(st) = <<None, None, None>>
    /\ st.workflow_status = "started"
    /\ st.timesheet_data = None
    /\ st.salary_calculation = None
    /\ st.salary_slip_path = None

\* C28: every file found is run, in the order found, from a fresh state
\* (all stages pending, status started); the outcome of a run is that of its
\* own document whatever the runs before it gave (failed_at_parsing exactly
\* for the documents the parser rejects); successful + failed is the number
\* of runs recorded and successful counts the completed runs; in the end
\* every file found has its entry in results.
C28_BatchIndependence ==
    /\ [](/\ Len(results) <= Len(timesheet_files)
          /\ successful + failed = Len(results)
          /\ successful = Cardinality({i \in 1..Len(results) :
                                           results[i].status = "completed"})
          /\ \A i \in 1..Len(results) :
                /\ results[i].file = basename(timesheet_files[i].path)
                /\ results[i].status \in TerminalStatuses
                /\ (results[i].status = "failed_at_parsing")
                       <=> ~parser_process(timesheet_files[i]).success
          /\ pc = "parse_timesheet" =>
                /\ runs = Len(results) + 1
                /\ file = Some(timesheet_files[runs])
                /\ state.timesheet_file_path = timesheet_files[runs].path
                /\ FreshState(state))
    /\ <>[](/\ Len(results) = Len(timesheet_files)
            /\ successful + failed = Len(timesheet_files))

C28_Witness ==
    /\ Len(timesheet_files) = 2
    /\ Len(results) = 2
    /\ results[1].status = "failed_at_parsing"
    /\ results[2].status = "completed"
    /\ results[2].salary_slip # None
    /\ successful = 1
    /\ failed = 1

====
